---- MODULE Spec2Model ----
(***************************************************************************)
(* Hybrid product recommender (recommendation_system): the signal          *)
(* recommenders, the fusion engine with its Redis result cache, the        *)
(* feature vectorizer, the profile builder and the popularity ranker.      *)
(*                                                                         *)
(* Python values are modelled by what the code does with them: dicts are   *)
(* functions plus the sequence of their keys in insertion order, lists are *)
(* sequences, floats are exact rationals kept as scaled integers.          *)
(***************************************************************************)
EXTENDS Integers, Sequences, FiniteSets, TLC

VARIABLES
    redis,            \* the key-value store behind redis_client: key -> stored text
    last,             \* what the most recent operation was given and what it yielded
    users_keys,       \* keys of the users map (and of user_index built from it)
    profile_keys,     \* keys of the user_profiles map handed to the engine
    mf_scores,        \* item_factors @ user_vector, per product
    knn_ties,         \* how kneighbors orders equidistant products
    catalog,          \* popularity ranker input: product id -> rating * 10
    history           \* popularity ranker / profile builder input histories

vars == <<redis, last, users_keys, profile_keys, mf_scores, knn_ties, catalog, history>>

(***************************************************************************)
(* Generic helpers for Python built-ins                                    *)
(***************************************************************************)
Min(a, b) == IF a <= b THEN a ELSE b

Range(s) == {s[i] : i \in DOMAIN s}

\* s[:n] for n >= 0
Take(s, n) == SubSeq(s, 1, Min(n, Len(s)))

\* d.get(k, default)
DictGet(d, k, default) == IF k \in DOMAIN d THEN d[k] ELSE default

RECURSIVE Reverse(_)
Reverse(s) == IF s = <<>> THEN <<>> ELSE Append(Reverse(Tail(s)), Head(s))

RECURSIVE SumSeq(_)
SumSeq(s) == IF s = <<>> THEN 0 ELSE Head(s) + SumSeq(Tail(s))

\* index of the first occurrence of x in s (0 when absent)
RECURSIVE IndexOf(_, _)
IndexOf(s, x) ==
    IF s = <<>> THEN 0
    ELSE IF Head(s) = x THEN 1
    ELSE LET r == IndexOf(Tail(s), x) IN IF r = 0 THEN 0 ELSE r + 1

\* the elements of s without repetition, in order of first occurrence
\* (the key order of a dict filled by traversing s)
RECURSIVE FirstOccurrences(_)
FirstOccurrences(s) ==
    IF s = <<>> THEN <<>>
    ELSE LET r == FirstOccurrences(SubSeq(s, 1, Len(s) - 1))
             x == s[Len(s)]
         IN IF x \in Range(r) THEN r ELSE Append(r, x)

\* x put into the descending sequence s behind every element whose key is >= key[x]
RECURSIVE InsertDesc(_, _, _)
InsertDesc(s, x, key) ==
    IF s = <<>> THEN <<x>>
    ELSE IF key[Head(s)] >= key[x] THEN <<Head(s)>> \o InsertDesc(Tail(s), x, key)
    ELSE <<x>> \o s

\* sorted(items, key=..., reverse=True): stable, equal keys keep their order
RECURSIVE SortedReverse(_, _)
SortedReverse(s, key) ==
    IF s = <<>> THEN <<>>
    ELSE InsertDesc(SortedReverse(SubSeq(s, 1, Len(s) - 1), key), s[Len(s)], key)

\* x put into the ascending sequence s behind every element whose key is <= key[x]
RECURSIVE InsertAsc(_, _, _)
InsertAsc(s, x, key) ==
    IF s = <<>> THEN <<x>>
    ELSE IF key[Head(s)] <= key[x] THEN <<Head(s)>> \o InsertAsc(Tail(s), x, key)
    ELSE <<x>> \o s

\* np.argsort(scores): ascending, equal scores in index order
RECURSIVE ArgSort(_, _)
ArgSort(s, key) ==
    IF s = <<>> THEN <<>>
    ELSE InsertAsc(ArgSort(SubSeq(s, 1, Len(s) - 1), key), s[Len(s)], key)

(***************************************************************************)
(* The sample dataset (data_loading.load_data)                             *)
(***************************************************************************)
\* products.keys() in insertion order
ProductOrder == <<101, 102, 103, 104, 105>>

ProductIds == Range(ProductOrder)

\* rating is kept times 10
products ==
    (101 :> [name |-> "Wireless Earbuds", category |-> "Electronics",
             tags |-> <<"audio", "wireless", "Bluetooth">>, rating |-> 45,
             device_suitability |-> {"mobile", "tablet"}]) @@
    (102 :> [name |-> "Smartphone Case", category |-> "Accessories",
             tags |-> <<"phone", "protection", "case">>, rating |-> 42,
             device_suitability |-> {"mobile"}]) @@
    (103 :> [name |-> "Yoga Mat", category |-> "Fitness",
             tags |-> <<"exercise", "mat", "yoga">>, rating |-> 47,
             device_suitability |-> {"tablet"}]) @@
    (104 :> [name |-> "Electric Toothbrush", category |-> "Personal Care",
             tags |-> <<"hygiene", "electric", "toothbrush">>, rating |-> 43,
             device_suitability |-> {"mobile"}]) @@
    (105 :> [name |-> "Laptop Stand", category |-> "Office Supplies",
             tags |-> <<"work", "laptop", "stand">>, rating |-> 46,
             device_suitability |-> {"desktop"}])

users ==
    (1 :> [name |-> "Alice", device |-> "mobile"]) @@
    (2 :> [name |-> "Bob", device |-> "desktop"]) @@
    (3 :> [name |-> "Charlie", device |-> "mobile"]) @@
    (4 :> [name |-> "Diana", device |-> "desktop"]) @@
    (5 :> [name |-> "Mary", device |-> "desktop"])

\* user id -> browsed product ids (the timestamps are never read)
browsing_history ==
    (1 :> <<101, 103>>) @@ (2 :> <<102>>) @@ (3 :> <<104>>) @@ (4 :> <<105>>)

\* user id -> <<product id, quantity>> records (the timestamps are never read)
purchase_history ==
    (1 :> << <<101, 1>> >>) @@ (2 :> << <<105, 2>> >>) @@
    (3 :> << <<103, 1>> >>) @@ (4 :> << <<101, 1>> >>)

\* purchase_history.keys() in insertion order
PurchaseOrder == <<1, 2, 3, 4>>

contextual_signals ==
    [c \in {"Electronics", "Fitness", "Office Supplies", "Personal Care"} |->
        CASE c = "Electronics" -> [peak_days |-> {"Friday", "Saturday"}, season |-> "Holiday"]
          [] c = "Fitness" -> [peak_days |-> {"Monday", "Wednesday"}, season |-> "Summer"]
          [] c = "Office Supplies" ->
                 [peak_days |-> {"Tuesday", "Thursday"}, season |-> "Back-to-School"]
          [] c = "Personal Care" -> [peak_days |-> {"Sunday"}, season |-> "All Year"]]

\* the values datetime.now().strftime("%A") can take
Days == {"Monday", "Tuesday", "Wednesday", "Thursday", "Friday", "Saturday", "Sunday"}

(***************************************************************************)
(* Raising and returning: what a Python call yields                        *)
(***************************************************************************)
Returned(v) == [status |-> "returned", error |-> "", value |-> v]

Raised(e) == [status |-> "raised", error |-> e, value |-> <<>>]

(***************************************************************************)
(* redis_client (setup.py): get / setex / delete / keys                    *)
(***************************************************************************)
\* redis_client.get(key): the stored text, or None
redis_get(store, key) ==
    IF key \in DOMAIN store THEN [found |-> TRUE, data |-> store[key]]
    ELSE [found |-> FALSE, data |-> <<>>]

\* redis_client.setex(key, ttl, text)
redis_setex(store, key, text) ==
    [k \in DOMAIN store \cup {key} |-> IF k = key THEN text ELSE store[k]]

\* redis_client.delete(key); also what the expiry of the key's ttl does
redis_delete(store, key) == [k \in DOMAIN store \ {key} |-> store[k]]

(***************************************************************************)
(* data_loading.extract_tags_and_categories                                *)
(***************************************************************************)
RECURSIVE TagsInOrder(_, _)
TagsInOrder(order, prods) ==
    IF order = <<>> THEN <<>>
    ELSE prods[Head(order)].tags \o TagsInOrder(Tail(order), prods)

\* list(set(...)): one enumeration of the set, here by first occurrence
all_tags == FirstOccurrences(TagsInOrder(ProductOrder, products))

all_categories == FirstOccurrences([i \in DOMAIN ProductOrder |-> products[ProductOrder[i]].category])

(***************************************************************************)
(* feature_engineering                                                     *)
(***************************************************************************)
\* create_product_feature_vector with the vocabulary lookups unchecked: an
\* unknown tag or category leaves its segment untouched
create_product_feature_vector_unchecked(product, tags_vocab, categories_vocab) ==
    Returned([i \in 1..Len(tags_vocab) |->
                 IF tags_vocab[i] \in Range(product.tags) THEN 1 ELSE 0]
             \o [i \in 1..Len(categories_vocab) |->
                 IF categories_vocab[i] = product.category THEN 1 ELSE 0])

\* create_product_feature_vector that returns the tag segment alone
create_product_feature_vector_tags_only(product, tags_vocab, categories_vocab) ==
    IF \E t \in Range(product.tags) : IndexOf(tags_vocab, t) = 0
       \/ IndexOf(categories_vocab, product.category) = 0
    THEN Raised("ValueError")
    ELSE Returned([i \in 1..Len(tags_vocab) |->
                      IF tags_vocab[i] \in Range(product.tags) THEN 1 ELSE 0])

\* list.index raises ValueError for a tag or category outside the vocabulary
create_product_feature_vector(product, tags_vocab, categories_vocab) ==
    IF \E t \in Range(product.tags) : IndexOf(tags_vocab, t) = 0
    THEN Raised("ValueError")
    ELSE IF IndexOf(categories_vocab, product.category) = 0
    THEN Raised("ValueError")
    ELSE LET tag_vector == [i \in 1..Len(tags_vocab) |->
                               IF \E t \in Range(product.tags) : IndexOf(tags_vocab, t) = i
                               THEN 1 ELSE 0]
             category_vector == [i \in 1..Len(categories_vocab) |->
                               IF IndexOf(categories_vocab, product.category) = i
                               THEN 1 ELSE 0]
         IN Returned(tag_vector \o category_vector)

\* json.dumps(vector.tolist()) and np.array(json.loads(text))
vector_dumps(v) == [json |-> "array", items |-> v]

vector_loads(text) == text.items

FeatureKey(product_id) == "product_feature:" \o ToString(product_id)

\* get_product_feature_vector: [result, store]. fault is the redis call that
\* raises redis.RedisError in this invocation ("none", "get" or "setex").
get_product_feature_vector(store, product_id, product, tags_vocab, categories_vocab, fault) ==
    LET cache_key == FeatureKey(product_id)
        computed == create_product_feature_vector(product, tags_vocab, categories_vocab)
        cached == redis_get(store, cache_key)
    IN IF fault = "get" THEN [result |-> computed, store |-> store]
       ELSE IF cached.found
       THEN [result |-> Returned(vector_loads(cached.data)), store |-> store]
       ELSE IF computed.status = "raised" THEN [result |-> computed, store |-> store]
       ELSE IF fault = "setex" THEN [result |-> computed, store |-> store]
       ELSE [result |-> computed,
             store |-> redis_setex(store, cache_key, vector_dumps(computed.value))]

\* compute_product_feature_vectors_parallel over the catalog, every task succeeding
product_feature_vectors ==
    [pid \in ProductIds |-> create_product_feature_vector(products[pid], all_tags, all_categories).value]


(***************************************************************************)
(* user_profiles.create_user_profile                                       *)
(***************************************************************************)
RECURSIVE VectorSum(_, _, _)
VectorSum(S, vectors, zero) ==
    IF S = {} THEN zero
    ELSE LET p == CHOOSE q \in S : TRUE
             rest == VectorSum(S \ {p}, vectors, zero)
         IN [i \in DOMAIN zero |-> rest[i] + vectors[p][i]]

\* every interaction counted, a product browsed and purchased counted twice
InteractedProductsRepeated(user_id, browsing, purchases) ==
    DictGet(browsing, user_id, <<>>)
        \o [i \in DOMAIN DictGet(purchases, user_id, <<>>) |-> purchases[user_id][i][1]]

\* the set built by the two interacted_products.update(...) calls
InteractedProducts(user_id, browsing, purchases) ==
    (IF user_id \in DOMAIN browsing THEN Range(browsing[user_id]) ELSE {})
    \cup (IF user_id \in DOMAIN purchases
          THEN {purchases[user_id][i][1] : i \in DOMAIN purchases[user_id]} ELSE {})

\* create_user_profile dividing by the number of interaction records
create_user_profile_per_record(user_id, browsing, purchases, vectors) ==
    LET recs == InteractedProductsRepeated(user_id, browsing, purchases)
        zero == [i \in 1..Len(vectors[CHOOSE p \in DOMAIN vectors : TRUE]) |-> 0]
    IN IF ~(Range(recs) \subseteq DOMAIN vectors) THEN Raised("KeyError")
       ELSE Returned([num |-> [i \in DOMAIN zero |-> SumSeq([j \in DOMAIN recs |-> vectors[recs[j]][i]])],
                 den |-> IF Len(recs) > 0 THEN Len(recs) ELSE 1])

\* The profile is the vector num / den (np.zeros, += per product, /= len).
\* vectors[product_id] raises KeyError for a product without a feature vector.
create_user_profile(user_id, browsing, purchases, vectors) ==
    LET interacted_products == InteractedProducts(user_id, browsing, purchases)
        zero == [i \in 1..Len(vectors[CHOOSE p \in DOMAIN vectors : TRUE]) |-> 0]
    IN IF ~(interacted_products \subseteq DOMAIN vectors) THEN Raised("KeyError")
       ELSE Returned([num |-> VectorSum(interacted_products, vectors, zero),
                      den |-> IF Cardinality(interacted_products) > 0
                              THEN Cardinality(interacted_products) ELSE 1])

(***************************************************************************)
(* main.compute_product_popularity                                         *)
(***************************************************************************)
\* the product ids met while traversing purchase_history.values()
RECURSIVE PurchasesInOrder(_, _)
PurchasesInOrder(user_order, purchases) ==
    IF user_order = <<>> THEN <<>>
    ELSE [i \in DOMAIN purchases[Head(user_order)] |-> purchases[Head(user_order)][i][1]]
         \o PurchasesInOrder(Tail(user_order), purchases)

Count(s, x) == Cardinality({i \in DOMAIN s : s[i] = x})

MaxOf(S) == CHOOSE m \in S : \A n \in S : n <= m

\* rating_weight = 0.7, frequency_weight = 0.3 and the rating * 10: the score * 100
PopularityRaw(rating, frequency) == 7 * rating + 30 * frequency

\* compute_product_popularity ending in sorted(...) without reverse=True
compute_product_popularity_ascending(user_order, purchases, ratings) ==
    LET met == PurchasesInOrder(user_order, purchases)
        keys == FirstOccurrences(met)
        raw == [pid \in Range(keys) |-> PopularityRaw(ratings[pid], Count(met, pid))]
        max_popularity == IF keys = <<>> THEN 1 ELSE MaxOf({raw[pid] : pid \in Range(keys)})
        ranked == ArgSort(keys, raw)
    IN [i \in DOMAIN ranked |->
           [product_id |-> ranked[i], num |-> raw[ranked[i]], den |-> max_popularity]]

\* The (product_id, score) pairs, score = num / den. Dividing every score by
\* the same positive maximum keeps their order, so the sort key is num.
compute_product_popularity(user_order, purchases, ratings) ==
    LET met == PurchasesInOrder(user_order, purchases)
        keys == FirstOccurrences(met)
        raw == [pid \in Range(keys) |-> PopularityRaw(ratings[pid], Count(met, pid))]
        max_popularity == IF keys = <<>> THEN 1 ELSE MaxOf({raw[pid] : pid \in Range(keys)})
        ranked == SortedReverse(keys, raw)
    IN [i \in DOMAIN ranked |->
           [product_id |-> ranked[i], num |-> raw[ranked[i]], den |-> max_popularity]]

\* popular_products as main() computes it from the sample dataset
popular_products ==
    compute_product_popularity(PurchaseOrder, purchase_history,
                               [pid \in ProductIds |-> products[pid].rating])


(***************************************************************************)
(* recommendation_algorithms                                               *)
(***************************************************************************)
\* {p[0] for p in purchase_history.get(user_id, [])}
PurchasedProducts(user_id, purchases) ==
    LET recs == DictGet(purchases, user_id, <<>>) IN {recs[i][1] : i \in DOMAIN recs}

NotPurchased(s, user_id, purchases) ==
    SelectSeq(s, LAMBDA pid : pid \notin PurchasedProducts(user_id, purchases))

\* scores[pid] stands for (item_factors @ user_vector)[product_index[pid]]
recommend_products_mf(user_id, index_keys, order, scores, purchases, top_n) ==
    IF user_id \notin index_keys THEN <<>>
    ELSE LET sorted_products == Reverse(ArgSort(order, scores))
         IN Take(NotPurchased(sorted_products, user_id, purchases), top_n)

Dot(a, b) == SumSeq([i \in DOMAIN a |-> a[i] * b[i]])

RECURSIVE ProductOf(_)
ProductOf(s) == IF s = <<>> THEN 1 ELSE Head(s) * ProductOf(Tail(s))

\* Cosine similarity to the profile, squared and brought to one denominator:
\* (u.v)^2 / |v|^2 times the product of all |v|^2; |u| is common to all and
\* every entry is >= 0, so a larger key is a smaller cosine distance.
CosineKey(profile, vectors, order) ==
    LET norms == [i \in DOMAIN order |-> Dot(vectors[order[i]], vectors[order[i]])]
        all == ProductOf(norms)
    IN [pid \in Range(order) |->
           Dot(profile.num, vectors[pid]) * Dot(profile.num, vectors[pid])
               * (all \div Dot(vectors[pid], vectors[pid]))]

\* nn.kneighbors: the n_neighbors nearest, nearest first; equidistant products
\* in index order ("low") or in reverse index order ("high")
KNeighbors(profile, vectors, order, n_neighbors, ties) ==
    LET key == CosineKey(profile, vectors, order)
    IN Take(SortedReverse(IF ties = "low" THEN order ELSE Reverse(order), key), n_neighbors)

\* user_profiles[user_id] raises KeyError for a user without a profile;
\* NearestNeighbors raises ValueError unless 0 < n_neighbors <= n_samples
recommend_products_cbf(user_id, profiles, vectors, order, purchases, top_n, ties) ==
    IF user_id \notin DOMAIN profiles THEN Raised("KeyError")
    ELSE IF top_n <= 0 \/ top_n > Len(order) THEN Raised("ValueError")
    ELSE Returned(Take(NotPurchased(KNeighbors(profiles[user_id], vectors, order, top_n, ties),
                                    user_id, purchases), top_n))

\* recommend_popular_trending_products without the [:top_n]
recommend_popular_trending_products_untruncated(user_id, popular, purchases, top_n) ==
    NotPurchased([i \in DOMAIN popular |-> popular[i].product_id], user_id, purchases)

recommend_popular_trending_products(user_id, popular, purchases, top_n) ==
    Take(NotPurchased([i \in DOMAIN popular |-> popular[i].product_id], user_id, purchases),
         top_n)

\* current_day is datetime.now().strftime("%A")
recommend_products_time_based(season_input, order, prods, signals, current_day) ==
    LET trending_categories ==
            {c \in DOMAIN signals :
                current_day \in signals[c].peak_days /\ signals[c].season \in Range(season_input)}
    IN SelectSeq(order, LAMBDA pid : prods[pid].category \in trending_categories)

\* recommend_products_device_based that finds no user and lists nothing
recommend_products_device_based_no_user(user_id, users_map, order, prods, purchases, top_n) ==
    <<>>

recommend_products_device_based(user_id, users_map, order, prods, purchases, top_n) ==
    IF user_id \notin DOMAIN users_map THEN <<>>
    ELSE LET device_type == users_map[user_id].device
             device_recommendations ==
                 SelectSeq(order, LAMBDA pid : device_type \in prods[pid].device_suitability)
         IN Take(IF user_id \in DOMAIN purchases
                 THEN NotPurchased(device_recommendations, user_id, purchases)
                 ELSE device_recommendations, top_n)


(***************************************************************************)
(* main: the hybrid fusion engine and its result cache                     *)
(***************************************************************************)
SignalNames == <<"mf", "cbf", "popular", "time_based", "device_based">>

EXPLANATION_TEMPLATES ==
    [source \in Range(SignalNames) |->
        CASE source = "mf" -> "Recommended because users similar to you purchased this."
          [] source = "cbf" -> "Recommended because it matches your interests."
          [] source = "popular" -> "Recommended because it's popular among other users."
          [] source = "time_based" -> "Recommended because it's trending this season."
          [] source = "device_based" -> "Recommended because it's suitable for your device."]

\* sep.join(parts)
RECURSIVE Join(_, _)
Join(sep, parts) ==
    IF parts = <<>> THEN ""
    ELSE IF Len(parts) = 1 THEN parts[1]
    ELSE parts[1] \o sep \o Join(sep, Tail(parts))

\* Elements of a result list: a (product_id, explanation) tuple, the
\* two-element list json.loads makes of it, or a bare product id.
Pair(product_id, explanation) ==
    [kind |-> "tuple", product_id |-> product_id, explanation |-> explanation]

BareId(product_id) == [kind |-> "int", product_id |-> product_id, explanation |-> ""]

\* json.dumps(recommendations): tuples and lists both become JSON arrays
recommendations_dumps(recommendations) ==
    [json |-> "array",
     items |-> [i \in DOMAIN recommendations |->
                   [json |-> IF recommendations[i].kind = "int" THEN "number" ELSE "array",
                    product_id |-> recommendations[i].product_id,
                    explanation |-> recommendations[i].explanation]]]

\* json.loads(text): JSON arrays become lists
recommendations_loads(text) ==
    [i \in DOMAIN text.items |->
        [kind |-> IF text.items[i].json = "number" THEN "int" ELSE "list",
         product_id |-> text.items[i].product_id,
         explanation |-> text.items[i].explanation]]

\* f"recommendations:{user_id}:{','.join(season_input)}"
CacheKey(user_id, season_input) ==
    "recommendations:" \o ToString(user_id) \o ":" \o Join(",", season_input)

\* get_cached_recommendations after redis_client.get answered
get_cached_recommendations(store, user_id, season_input) ==
    LET cached_data == redis_get(store, CacheKey(user_id, season_input))
    IN IF ~cached_data.found THEN [found |-> FALSE, value |-> <<>>]
       ELSE [found |-> TRUE, value |-> recommendations_loads(cached_data.data)]

\* cache_recommendations when redis_client.setex succeeds
cache_recommendations(store, user_id, season_input, recommendations) ==
    redis_setex(store, CacheKey(user_id, season_input), recommendations_dumps(recommendations))

\* the default weights (os.getenv(..., default)), times 10
mf_weight == 5

cbf_weight == 4

popular_weight == 3

time_base_weight == 2

device_weight == 2

\* weight * (1 - i / L) for the 0-based position i in a list of length L,
\* times 60 so that it is whole for every L up to 6 (the weight being times 10)
PositionScore(weight, i, L) == (weight * 60 * (L - i)) \div L

SignalScore(items, weight, pid) ==
    SumSeq([i \in DOMAIN items |->
               IF items[i] = pid THEN PositionScore(weight, i - 1, Len(items)) ELSE 0])

\* the fusion with every listed product scored by the weight alone, whatever
\* its position in the list
WeightedFusion_position_blind(mf, cbf, popular, time_based, device_based, top_n) ==
    LET items == [n \in Range(SignalNames) |->
                    CASE n = "mf" -> mf [] n = "cbf" -> cbf [] n = "popular" -> popular
                      [] n = "time_based" -> time_based [] n = "device_based" -> device_based]
        weight == [n \in Range(SignalNames) |->
                    CASE n = "mf" -> mf_weight [] n = "cbf" -> cbf_weight
                      [] n = "popular" -> popular_weight
                      [] n = "time_based" -> time_base_weight
                      [] n = "device_based" -> device_weight]
        keys == FirstOccurrences(mf \o cbf \o popular \o time_based \o device_based)
        recommendation_scores ==
            [pid \in Range(keys) |->
                SumSeq([k \in DOMAIN SignalNames |->
                           IF pid \in Range(items[SignalNames[k]])
                           THEN weight[SignalNames[k]] ELSE 0])]
        recommendation_sources ==
            [pid \in Range(keys) |->
                SelectSeq(SignalNames, LAMBDA n : pid \in Range(items[n]))]
        top == Take(SortedReverse(keys, recommendation_scores), top_n)
    IN [i \in DOMAIN top |->
           Pair(top[i],
                Join(", ", [j \in DOMAIN recommendation_sources[top[i]] |->
                               EXPLANATION_TEMPLATES[recommendation_sources[top[i]][j]]]))]

\* lines 126-155: accumulate the five lists, sort, cut, attach explanations
WeightedFusion(mf, cbf, popular, time_based, device_based, top_n) ==
    LET items == [n \in Range(SignalNames) |->
                    CASE n = "mf" -> mf [] n = "cbf" -> cbf [] n = "popular" -> popular
                      [] n = "time_based" -> time_based [] n = "device_based" -> device_based]
        weight == [n \in Range(SignalNames) |->
                    CASE n = "mf" -> mf_weight [] n = "cbf" -> cbf_weight
                      [] n = "popular" -> popular_weight
                      [] n = "time_based" -> time_base_weight
                      [] n = "device_based" -> device_weight]
        keys == FirstOccurrences(mf \o cbf \o popular \o time_based \o device_based)
        recommendation_scores ==
            [pid \in Range(keys) |->
                SumSeq([k \in DOMAIN SignalNames |->
                           SignalScore(items[SignalNames[k]], weight[SignalNames[k]], pid)])]
        recommendation_sources ==
            [pid \in Range(keys) |->
                SelectSeq(SignalNames, LAMBDA n : pid \in Range(items[n]))]
        sorted_recommendations == SortedReverse(keys, recommendation_scores)
        top == Take(sorted_recommendations, top_n)
    IN [i \in DOMAIN top |->
           Pair(top[i],
                Join(", ", [j \in DOMAIN recommendation_sources[top[i]] |->
                               EXPLANATION_TEMPLATES[recommendation_sources[top[i]][j]]]))]

Outcome(status, error, path, value) ==
    [status |-> status, error |-> error, path |-> path, value |-> value]

\* recommend_products_hybrid from line 95 to line 155: what it computes when
\* nothing usable was cached. data holds the maps the caller passes.
HybridCompute(user_id, season_input, data, top_n, current_day) ==
    LET is_new_user == user_id \notin DOMAIN data.browsing_history
                       /\ user_id \notin DOMAIN data.purchase_history
        popular_recommendations ==
            recommend_popular_trending_products(user_id, data.popular_products,
                                                data.purchase_history, top_n)
        mf_recommendations ==
            recommend_products_mf(user_id, data.user_index, ProductOrder, data.mf_scores,
                                  data.purchase_history, top_n)
        cbf == recommend_products_cbf(user_id, data.user_profiles, product_feature_vectors,
                                      ProductOrder, data.purchase_history, top_n, data.knn_ties)
        time_based_recommendations ==
            recommend_products_time_based(season_input, ProductOrder, products,
                                          contextual_signals, current_day)
        device_recommendations ==
            recommend_products_device_based(user_id, data.users, ProductOrder, products,
                                            data.purchase_history, top_n)
    IN IF is_new_user
       THEN Outcome("returned", "", "new_user",
                    [i \in DOMAIN popular_recommendations |->
                        Pair(popular_recommendations[i], EXPLANATION_TEMPLATES["popular"])])
       ELSE IF cbf.status = "raised" THEN Outcome("raised", cbf.error, "error", <<>>)
       ELSE IF mf_recommendations = <<>> /\ cbf.value = <<>>
               /\ time_based_recommendations = <<>> /\ device_recommendations = <<>>
       THEN Outcome("returned", "", "fallback",
                    [i \in DOMAIN Take(popular_recommendations, top_n) |->
                        BareId(popular_recommendations[i])])
       ELSE Outcome("returned", "", "fusion",
                    WeightedFusion(mf_recommendations, cbf.value, popular_recommendations,
                                   time_based_recommendations, device_recommendations, top_n))

(***************************************************************************)
(* The engine as a state machine: calls against one shared cache           *)
(***************************************************************************)
MaxTopN == 3

\* the smallest top_n and the largest one
TopNs == {1, MaxTopN}

\* 3 has browsed and purchased, 999 is in neither history (tests.new_user_id)
CallUsers == {3, 999}

\* tests.example_season_input and the same labels in the other order
SeasonInputs == {<<"All Year", "Summer">>, <<"Summer", "All Year">>}

\* one day per way the sample contextual_signals answer these season inputs:
\* Fitness peaks on Monday, Personal Care on Sunday, nothing in season on Tuesday
CallDays == {"Monday", "Tuesday", "Sunday"}

Faults == {"none", "get", "setex"}

\* the users map with every user, or with user 3 no longer in it
UsersInputs == {DOMAIN users, DOMAIN users \ {3}}

\* user_profiles with a profile per user, or with the profile of user 3 missing
ProfilesInputs == {DOMAIN users, DOMAIN users \ {3}}

\* all-zero factors (perform_svd's fallback) and one generic score vector
MFScoreInputs ==
    {[pid \in ProductIds |-> 0],
     (101 :> 3) @@ (102 :> 1) @@ (103 :> 4) @@ (104 :> 1) @@ (105 :> 2)}

TieInputs == {"low", "high"}

\* the arguments main() and the tests build and hand to recommend_products_hybrid
DatasetOf(user_ids, profiled_ids, scores, ties) ==
    [users |-> [u \in user_ids |-> users[u]],
     user_index |-> user_ids,
     browsing_history |-> browsing_history,
     purchase_history |-> purchase_history,
     popular_products |-> popular_products,
     user_profiles |->
         [u \in profiled_ids |->
             create_user_profile(u, browsing_history, purchase_history,
                                 product_feature_vectors).value],
     mf_scores |-> scores,
     knn_ties |-> ties]

\* HybridCompute tabulated over every argument combination the machine passes
HybridComputeTable ==
    [uk \in UsersInputs |-> [pk \in ProfilesInputs |->
     [sc \in MFScoreInputs |-> [ti \in TieInputs |->
     [u \in CallUsers |-> [s \in SeasonInputs |-> [k \in TopNs |-> [d \in CallDays |->
        HybridCompute(u, s, DatasetOf(uk, pk, sc, ti), k, d)]]]]]]]]

\* recommend_products_hybrid around what it computes on a miss: [outcome, store].
\* fault names the redis call that raises redis.RedisError in this invocation;
\* neither get_cached_recommendations nor cache_recommendations catches it.
HybridCall(store, computed, user_id, season_input, fault) ==
    LET cached_recommendations == get_cached_recommendations(store, user_id, season_input)
    IN IF fault = "get"
       THEN [outcome |-> Outcome("raised", "RedisError", "error", <<>>), store |-> store]
       ELSE IF cached_recommendations.found /\ cached_recommendations.value # <<>>
       THEN [outcome |-> Outcome("returned", "", "cache_hit", cached_recommendations.value),
             store |-> store]
       ELSE IF computed.path # "fusion" THEN [outcome |-> computed, store |-> store]
       ELSE IF fault = "setex"
       THEN [outcome |-> Outcome("raised", "RedisError", "error", <<>>), store |-> store]
       ELSE [outcome |-> computed,
             store |-> cache_recommendations(store, user_id, season_input, computed.value)]

\* recommend_products_hybrid called with the maps of the current state
recommend_products_hybrid(store, user_id, season_input, top_n, current_day, fault) ==
    HybridCall(store,
               HybridComputeTable[users_keys][profile_keys][mf_scores][knn_ties]
                                 [user_id][season_input][top_n][current_day],
               user_id, season_input, fault)

Observation(op, user_id, season_input, top_n, status, error, path, result) ==
    [op |-> op, user_id |-> user_id, season_input |-> season_input, top_n |-> top_n,
     status |-> status, error |-> error, path |-> path, result |-> result]

NoCall == Observation("none", 0, <<>>, 0, "", "", "", <<>>)

Init ==
    /\ redis = <<>>
    /\ last = NoCall
    /\ users_keys \in UsersInputs
    /\ profile_keys \in ProfilesInputs
    /\ mf_scores \in MFScoreInputs
    /\ knn_ties \in TieInputs
    /\ catalog = <<>>
    /\ history = <<>>

inputs == <<users_keys, profile_keys, mf_scores, knn_ties, catalog, history>>

RecommendProductsHybrid(user_id, season_input, top_n, current_day, fault) ==
    LET r == recommend_products_hybrid(redis, user_id, season_input, top_n, current_day, fault)
    IN /\ redis' = r.store
       /\ last' = Observation("recommend", user_id, season_input, top_n,
                              r.outcome.status, r.outcome.error, r.outcome.path,
                              r.outcome.value)
       /\ UNCHANGED inputs

\* the ttl given to setex runs out
ExpireKey(key) ==
    /\ key \in DOMAIN redis
    /\ redis' = redis_delete(redis, key)
    /\ last' = [NoCall EXCEPT !.op = "expire"]
    /\ UNCHANGED inputs

\* redis_client.keys(f"recommendations:{user_id}:*")
KeysOfUser(store, user_id) ==
    {k \in DOMAIN store : \E s \in SeasonInputs : k = CacheKey(user_id, s)}

RECURSIVE DeleteAll(_, _)
DeleteAll(store, keys) ==
    IF keys = {} THEN store
    ELSE LET k == CHOOSE x \in keys : TRUE
         IN DeleteAll(redis_delete(store, k), keys \ {k})

ClearCacheForUser(user_id) ==
    /\ KeysOfUser(redis, user_id) # {}
    /\ redis' = DeleteAll(redis, KeysOfUser(redis, user_id))
    /\ last' = [NoCall EXCEPT !.op = "clear", !.user_id = user_id]
    /\ UNCHANGED inputs

Next ==
    \/ \E u \in CallUsers, s \in SeasonInputs, n \in TopNs, d \in CallDays, f \in Faults :
           RecommendProductsHybrid(u, s, n, d, f)
    \/ \E k \in DOMAIN redis : ExpireKey(k)
    \/ \E u \in CallUsers : ClearCacheForUser(u)

Spec == Init /\ [][Next]_vars

\* the product ids and the explanations of a result list, element by element
Entries(result) ==
    [i \in DOMAIN result |-> <<result[i].product_id, result[i].explanation>>]

\* C1: no product id in a list returned by recommend_products_hybrid is in
\* the purchase history of the user the call was made for, whichever signal
\* contributed it and whether or not the list came from the cache.
C1_NoPurchasedProductReturned ==
    (last.op = "recommend" /\ last.status = "returned")
    => \A i \in DOMAIN last.result :
          \A j \in DOMAIN DictGet(purchase_history, last.user_id, <<>>) :
             purchase_history[last.user_id][j][1] # last.result[i].product_id

\* C2: every list returned by recommend_products_hybrid is at most as long
\* as the top_n of that call, also when it is answered from the cache that
\* an earlier call with another top_n wrote.
C2_LengthAtMostTopN ==
    (last.op = "recommend" /\ last.status = "returned")
    => Len(last.result) <= last.top_n

\* C3: a call that follows a returned call with the same user id, season
\* input and top_n, the cache working and nothing expired or cleared in
\* between, is answered from the cache with the entries of the first result,
\* whichever path the first call took.
C3_RepeatServedFromCache ==
    [][\A d \in CallDays :
          (/\ last.op = "recommend"
           /\ last.status = "returned"
           /\ last.user_id \in CallUsers
           /\ RecommendProductsHybrid(last.user_id, last.season_input, last.top_n, d, "none"))
          => (/\ last'.status = "returned"
              /\ last'.path = "cache_hit"
              /\ Entries(last'.result) = Entries(last.result))]_vars

\* C4: for a user in neither history a returned list has at most top_n
\* entries, its products are the first ones of the popularity ranking in
\* ranking order, and every entry carries exactly the popularity explanation
\* (no latent-factor or content-similarity text).
C4_NewUserPopularOnly ==
    (/\ last.op = "recommend"
     /\ last.status = "returned"
     /\ last.user_id \notin DOMAIN browsing_history
     /\ last.user_id \notin DOMAIN purchase_history)
    => (/\ Len(last.result) <= last.top_n
        /\ Len(last.result) <= Len(popular_products)
        /\ \A i \in DOMAIN last.result :
              /\ last.result[i].product_id = popular_products[i].product_id
              /\ last.result[i].explanation
                 = "Recommended because it's popular among other users.")

\* C4's case: user 999 is served the whole popularity ranking while the
\* cache holds the results of other calls
C4_Witness ==
    /\ last.op = "recommend"
    /\ last.user_id = 999
    /\ last.status = "returned"
    /\ last.top_n = MaxTopN
    /\ Len(last.result) = Len(popular_products)
    /\ redis # <<>>

\* C5: an error raised by the cache store, on the lookup or on the store,
\* never reaches the caller of recommend_products_hybrid.
C5_CacheErrorNeverReachesCaller ==
    last.op = "recommend" => ~(last.status = "raised" /\ last.error = "RedisError")

\* C6: on every return path the result is a list whose every element is a
\* pair (a tuple, or the two-element list json.loads makes of one) of a
\* product id of the catalog and an explanation text.
C6_EveryElementIsAPair ==
    (last.op = "recommend" /\ last.status = "returned")
    => \A i \in DOMAIN last.result :
          /\ last.result[i].kind \in {"tuple", "list"}
          /\ last.result[i].product_id \in ProductIds
          /\ last.result[i].explanation # ""

(***************************************************************************)
(* The vectorizer and its product_feature cache as a state machine         *)
(***************************************************************************)
\* list(set(...)) enumerates the labels in an order that differs from one
\* process to the next (string hashing); two of these orders
VocabularyInputs ==
    {[tags |-> all_tags, categories |-> all_categories],
     [tags |-> Reverse(all_tags), categories |-> Reverse(all_categories)]}

\* the fields of a product record the vectorizer reads
ProductRecord(tags, category) == [tags |-> tags, category |-> category]

\* three products of the catalog, product 101 with a damaged record, the two
\* invalid products of tests.py and a product with a tag outside the vocabulary
VectorizerInputs ==
    {[product_id |-> pid, product |-> ProductRecord(products[pid].tags, products[pid].category)] :
        pid \in {101, 103, 105}}
    \cup {[product_id |-> 101, product |-> ProductRecord(products[101].tags, "Invalid")],
          [product_id |-> 201, product |-> ProductRecord(<<>>, "Invalid")],
          [product_id |-> 202, product |-> ProductRecord(<<"audio">>, "NonExistentCategory")],
          [product_id |-> 203, product |-> ProductRecord(<<"audio", "unknown">>, "Electronics")]}

VectorizerCall(op, input, vocabulary, path, result) ==
    [op |-> op, product_id |-> input.product_id, product |-> input.product,
     vocabulary |-> vocabulary, path |-> path,
     status |-> result.status, error |-> result.error, result |-> result.value]

FeatureInit ==
    /\ redis = <<>>
    /\ last = NoCall
    /\ users_keys = DOMAIN users
    /\ profile_keys = DOMAIN users
    /\ mf_scores = [pid \in ProductIds |-> 0]
    /\ knn_ties = "low"
    /\ catalog = <<>>
    /\ history = <<>>

\* a direct call, as tests.py makes them
CreateProductFeatureVector(input, vocabulary) ==
    /\ last' = VectorizerCall("create_product_feature_vector", input, vocabulary, "direct",
                              create_product_feature_vector(input.product, vocabulary.tags,
                                                            vocabulary.categories))
    /\ UNCHANGED <<redis, inputs>>

GetProductFeatureVector(input, vocabulary, fault) ==
    LET r == get_product_feature_vector(redis, input.product_id, input.product,
                                        vocabulary.tags, vocabulary.categories, fault)
        path == IF fault = "get" THEN "redis_error"
                ELSE IF redis_get(redis, FeatureKey(input.product_id)).found THEN "hit"
                ELSE IF fault = "setex" /\ r.store = redis /\ r.result.status = "returned"
                THEN "redis_error"
                ELSE "miss"
    IN /\ redis' = r.store
       /\ last' = VectorizerCall("get_product_feature_vector", input, vocabulary, path, r.result)
       /\ UNCHANGED inputs

\* the 24 hours given to setex run out
ExpireFeatureKey(key) ==
    /\ key \in DOMAIN redis
    /\ redis' = redis_delete(redis, key)
    /\ last' = [NoCall EXCEPT !.op = "expire"]
    /\ UNCHANGED inputs

FeatureNext ==
    \/ \E i \in VectorizerInputs, v \in VocabularyInputs : CreateProductFeatureVector(i, v)
    \/ \E i \in VectorizerInputs, v \in VocabularyInputs, f \in Faults :
           GetProductFeatureVector(i, v, f)
    \/ \E k \in DOMAIN redis : ExpireFeatureKey(k)

FeatureSpec == FeatureInit /\ [][FeatureNext]_vars

VectorizerOps == {"create_product_feature_vector", "get_product_feature_vector"}

\* C7: a product whose category is not in the category vocabulary, or one of
\* whose tags is not in the tag vocabulary, is never vectorized: the direct
\* call, and the cached call on a miss or after a redis error, end in
\* ValueError and hand the caller no vector.
C7_InvalidProductRaises ==
    (/\ last.op \in VectorizerOps
     /\ last.path # "hit"
     /\ \/ \A i \in DOMAIN last.vocabulary.categories :
              last.vocabulary.categories[i] # last.product.category
        \/ \E j \in DOMAIN last.product.tags :
              \A i \in DOMAIN last.vocabulary.tags :
                 last.vocabulary.tags[i] # last.product.tags[j])
    => (last.status = "raised" /\ last.error = "ValueError" /\ last.result = <<>>)

\* C7's case: the cached call meets a redis error for a product with an
\* unknown category while the cache holds vectors, and raises
C7_Witness ==
    /\ last.op = "get_product_feature_vector"
    /\ last.path = "redis_error"
    /\ last.product.category = "NonExistentCategory"
    /\ last.status = "raised"
    /\ redis # <<>>

CategorySegment(vector, vocabulary) ==
    {i \in DOMAIN vector : i > Len(vocabulary.tags) /\ vector[i] = 1}

\* C8: every vector yielded for a product of the catalog, computed afresh or
\* served from the product_feature cache, has length |tags| + |categories|
\* and exactly one 1 in its category segment; so has every cached vector.
C8_VectorShape ==
    /\ (/\ last.op \in VectorizerOps
        /\ last.product_id \in ProductIds
        /\ last.product = ProductRecord(products[last.product_id].tags,
                                        products[last.product_id].category))
       => (/\ last.status = "returned"
           /\ Len(last.result) = Len(last.vocabulary.tags) + Len(last.vocabulary.categories)
           /\ \A i \in DOMAIN last.result : last.result[i] \in {0, 1}
           /\ Cardinality(CategorySegment(last.result, last.vocabulary)) = 1)
    /\ \A k \in DOMAIN redis :
           /\ Len(vector_loads(redis[k])) = Len(all_tags) + Len(all_categories)
           /\ Cardinality(CategorySegment(vector_loads(redis[k]),
                                          [tags |-> all_tags])) = 1

\* C8's case: a catalog product's vector is served from the cache, where a
\* process with another vocabulary order had put it
C8_Witness ==
    /\ last.op = "get_product_feature_vector"
    /\ last.path = "hit"
    /\ last.product_id = 103
    /\ last.status = "returned"
    /\ last.vocabulary.tags = Reverse(all_tags)
    /\ last.result = product_feature_vectors[103]

(***************************************************************************)
(* create_user_profile over bounded histories                              *)
(***************************************************************************)
MaxHistory == 2

\* all sequences over S with at most n elements
RECURSIVE SeqsUpTo(_, _)
SeqsUpTo(S, n) ==
    IF n = 0 THEN {<<>>}
    ELSE LET shorter == SeqsUpTo(S, n - 1)
         IN shorter \cup {Append(q, x) : q \in {r \in shorter : Len(r) = n - 1}, x \in S}

\* browsing and purchase histories of user 1 (none, empty, repeated products,
\* product 106 that has no feature vector) next to a fixed history of user 2
ProfileHistories ==
    {[browsing |-> b @@ (2 :> <<102>>), purchases |-> q @@ (2 :> << <<105, 2>> >>)] :
        b \in {<<>>} \cup {(1 :> h) : h \in SeqsUpTo({101, 104, 106}, MaxHistory)},
        q \in {<<>>} \cup {(1 :> h) : h \in SeqsUpTo({<<101, 1>>, <<103, 2>>}, MaxHistory)}}

ProfileCall(user_id, result) ==
    [op |-> "create_user_profile", user_id |-> user_id,
     status |-> result.status, error |-> result.error, result |-> result.value]

ProfileInit ==
    /\ redis = <<>>
    /\ last = NoCall
    /\ users_keys = DOMAIN users
    /\ profile_keys = DOMAIN users
    /\ mf_scores = [pid \in ProductIds |-> 0]
    /\ knn_ties = "low"
    /\ catalog = <<>>
    /\ history \in ProfileHistories

CreateUserProfile(user_id) ==
    /\ last' = ProfileCall(user_id,
                           create_user_profile(user_id, history.browsing, history.purchases,
                                               product_feature_vectors))
    /\ UNCHANGED <<redis, inputs>>

ProfileNext == \E u \in {1, 2, 999} : CreateUserProfile(u)

ProfileSpec == ProfileInit /\ [][ProfileNext]_vars

\* the distinct products user_id browsed or purchased, read off the histories
DistinctInteracted(user_id) ==
    {pid \in ProductIds \cup {106} :
        \/ /\ user_id \in DOMAIN history.browsing
           /\ \E i \in DOMAIN history.browsing[user_id] : history.browsing[user_id][i] = pid
        \/ /\ user_id \in DOMAIN history.purchases
           /\ \E i \in DOMAIN history.purchases[user_id] :
                 history.purchases[user_id][i][1] = pid}

\* C9: for a known or unknown user id whose interacted products all have a
\* feature vector, create_user_profile returns the element-wise mean of the
\* vectors of the distinct interacted products (component i is the share of
\* those products that have feature i), the zero vector of feature-vector
\* length when there are none, and it never fails for a user in no history.
C9_ProfileIsMeanOfDistinct ==
    (last.op = "create_user_profile"
     /\ DistinctInteracted(last.user_id) \subseteq DOMAIN product_feature_vectors)
    => LET S == DistinctInteracted(last.user_id)
       IN /\ last.status = "returned"
          /\ Len(last.result.num) = Len(all_tags) + Len(all_categories)
          /\ last.result.den > 0
          /\ \A i \in DOMAIN last.result.num :
                IF S = {} THEN last.result.num[i] = 0
                ELSE last.result.num[i] * Cardinality(S)
                     = last.result.den
                       * Cardinality({pid \in S : product_feature_vectors[pid][i] = 1})

\* C9's case: user 1 browsed product 101 twice, purchased 101 and 103, and
\* the profile is the mean over the two distinct products
C9_Witness ==
    /\ last.op = "create_user_profile"
    /\ last.user_id = 1
    /\ 1 \in DOMAIN history.browsing /\ history.browsing[1] = <<101, 101>>
    /\ 1 \in DOMAIN history.purchases /\ history.purchases[1] = << <<101, 1>>, <<103, 2>> >>
    /\ last.status = "returned"
    /\ last.result.den = 2

(***************************************************************************)
(* compute_product_popularity over bounded purchase histories and ratings  *)
(***************************************************************************)
MaxPurchases == 2

\* purchase_history.keys() of the drawn histories, in insertion order
Purchasers == <<1, 2>>

\* the sample ratings, and equal ratings (times 10) so that scores tie
RatingInputs ==
    {[pid \in ProductIds |-> products[pid].rating], [pid \in ProductIds |-> 40]}

PurchaseHistories ==
    [Range(Purchasers) -> SeqsUpTo({<<101, 1>>, <<102, 1>>, <<103, 2>>}, MaxPurchases)]

PopularityCall(result) ==
    [op |-> "compute_product_popularity", status |-> "returned", error |-> "",
     result |-> result]

PopularityInit ==
    /\ redis = <<>>
    /\ last = NoCall
    /\ users_keys = DOMAIN users
    /\ profile_keys = DOMAIN users
    /\ mf_scores = [pid \in ProductIds |-> 0]
    /\ knn_ties = "low"
    /\ catalog \in RatingInputs
    /\ history \in PurchaseHistories

ComputeProductPopularity ==
    /\ last.op = "none"
    /\ last' = PopularityCall(compute_product_popularity(Purchasers, history, catalog))
    /\ UNCHANGED <<redis, inputs>>

PopularityNext == ComputeProductPopularity

PopularitySpec == PopularityInit /\ [][PopularityNext]_vars

\* position of the first purchase record of pid met while traversing the
\* histories user by user, and the number of its records
FirstMet(pid) ==
    LET u == CHOOSE v \in DOMAIN Purchasers :
                 /\ \E i \in DOMAIN history[Purchasers[v]] : history[Purchasers[v]][i][1] = pid
                 /\ \A w \in 1..(v - 1) :
                       \A i \in DOMAIN history[Purchasers[w]] : history[Purchasers[w]][i][1] # pid
        k == CHOOSE i \in DOMAIN history[Purchasers[u]] :
                 /\ history[Purchasers[u]][i][1] = pid
                 /\ \A j \in 1..(i - 1) : history[Purchasers[u]][j][1] # pid
    IN u * (MaxPurchases + 2) + k

\* C10: compute_product_popularity returns exactly one entry per product
\* with at least one purchase record and none for the others, no entry has
\* a smaller score than its successor, entries with equal score stand in the
\* order in which their products were first met in the purchase history,
\* and every score lies in [0, 1].
C10_PopularityRanking ==
    last.op = "compute_product_popularity"
    => LET r == last.result
           purchased == {pid \in ProductIds :
                            \E u \in DOMAIN history :
                               \E i \in DOMAIN history[u] : history[u][i][1] = pid}
       IN /\ {r[i].product_id : i \in DOMAIN r} = purchased
          /\ Len(r) = Cardinality(purchased)
          /\ \A i \in DOMAIN r : r[i].den > 0 /\ 0 <= r[i].num /\ r[i].num <= r[i].den
          /\ \A i, j \in DOMAIN r :
                i < j => /\ r[i].num * r[j].den >= r[j].num * r[i].den
                         /\ (r[i].num * r[j].den = r[j].num * r[i].den
                             => FirstMet(r[i].product_id) < FirstMet(r[j].product_id))

\* C10's case: three purchased products and two unpurchased ones, the last
\* two entries tie and stand in first-met order against their id order
C10_Witness ==
    /\ last.op = "compute_product_popularity"
    /\ Len(last.result) = 3
    /\ last.result[1].num > last.result[2].num
    /\ last.result[2].num = last.result[3].num
    /\ last.result[2].product_id > last.result[3].product_id

(***************************************************************************)
(* The sample dataset served with the default top_n, from an empty cache   *)
(***************************************************************************)
\* top_n=5, the default of recommend_products_hybrid
DefaultTopN == 5

\* every strict ranking of the five products by item_factors @ user_vector
MFRankings ==
    {f \in [ProductIds -> 1..Len(ProductOrder)] :
        \A p, q \in ProductIds : p # q => f[p] # f[q]}

SampleInit ==
    /\ redis = <<>>
    /\ last = NoCall
    /\ users_keys = DOMAIN users
    /\ profile_keys = DOMAIN users
    /\ mf_scores \in MFRankings
    /\ knn_ties \in TieInputs
    /\ catalog = <<>>
    /\ history = <<>>

\* tests.test_recommend_products_hybrid_specific_recommendations, any day
RecommendForExampleUser(current_day) ==
    LET user_id == 1
        season_input == <<"All Year", "Summer">>
        r == HybridCall(redis,
                        HybridCompute(user_id, season_input,
                                      DatasetOf(users_keys, profile_keys, mf_scores, knn_ties),
                                      DefaultTopN, current_day),
                        user_id, season_input, "none")
    IN /\ last.op = "none"
       /\ redis' = r.store
       /\ last' = Observation("recommend", user_id, season_input, DefaultTopN,
                              r.outcome.status, r.outcome.error, r.outcome.path,
                              r.outcome.value)
       /\ UNCHANGED inputs

SampleNext == \E d \in Days : RecommendForExampleUser(d)

SampleSpec == SampleInit /\ [][SampleNext]_vars

\* C11: on the sample dataset with an empty cache, user 1 with season input
\* [All Year, Summer] and top_n = 5 gets, on every day and for every order
\* of the latent-factor and content lists, a non-empty list holding exactly
\* the products that occur in a signal list (the four products user 1 has
\* not purchased); product 102 is in it, explained by the latent-factor,
\* content and device signals.
C11_SampleResultHolds102 ==
    last.op = "recommend"
    => (/\ last.status = "returned"
        /\ last.result # <<>>
        /\ {last.result[i].product_id : i \in DOMAIN last.result} = ProductIds \ {101}
        /\ \E i \in DOMAIN last.result :
              /\ last.result[i].product_id = 102
              /\ last.result[i].explanation
                 = "Recommended because users similar to you purchased this., "
                   \o "Recommended because it matches your interests., "
                   \o "Recommended because it's suitable for your device.")

\* C11's case: the latent-factor ranking puts 102 last and 102 is returned
\* all the same, behind another product
C11_Witness ==
    /\ last.op = "recommend"
    /\ \A p \in ProductIds : mf_scores[102] <= mf_scores[p]
    /\ last.status = "returned"
    /\ Len(last.result) = 4
    /\ \E i \in DOMAIN last.result : i > 1 /\ last.result[i].product_id = 102

(***************************************************************************)
(* Claims about the engine's cache, checked on Spec                        *)
(***************************************************************************)
\* C12: when a user in neither history is served on a cache miss, the
\* cache holds the returned popularity-only result under the call's
\* (user, season input) key once the call has returned.
C12_NewUserResultCached ==
    (/\ last.op = "recommend"
     /\ last.status = "returned"
     /\ last.path = "new_user")
    => (/\ CacheKey(last.user_id, last.season_input) \in DOMAIN redis
        /\ Entries(recommendations_loads(redis[CacheKey(last.user_id, last.season_input)]))
           = Entries(last.result))

\* C14: a request whose season input holds the same labels as the one of
\* the request just answered and cached for the same user, in whatever
\* order, uses the same cache key and is a cache hit on that entry.
C14_KeyIgnoresLabelOrder ==
    [][\A s \in SeasonInputs, d \in CallDays :
          (/\ last.op = "recommend"
           /\ last.status = "returned"
           /\ last.path = "fusion"
           /\ Range(s) = Range(last.season_input)
           /\ RecommendProductsHybrid(last.user_id, s, last.top_n, d, "none"))
          => (/\ CacheKey(last.user_id, s) = CacheKey(last.user_id, last.season_input)
              /\ last'.path = "cache_hit"
              /\ Entries(last'.result) = Entries(last.result))]_vars

\* C15: in every cache state reachable through earlier calls, a call whose
\* cache accesses succeed returns the list the same call, on the same day,
\* returns from an empty cache.
C15_CacheIsTransparent ==
    [][\A u \in CallUsers, s \in SeasonInputs, n \in TopNs, d \in CallDays :
          RecommendProductsHybrid(u, s, n, d, "none")
          => LET direct == recommend_products_hybrid(<<>>, u, s, n, d, "none").outcome
             IN /\ last'.status = direct.status
                /\ Entries(last'.result) = Entries(direct.value)]_vars

(***************************************************************************)
(* The weighted fusion over bounded signal lists                           *)
(***************************************************************************)
MaxSignalLen == 2

\* the lists a recommender can return: no product twice
DistinctSeqs(S, n) ==
    {q \in SeqsUpTo(S, n) : \A i, j \in DOMAIN q : i # j => q[i] # q[j]}

\* the five lists handed to the fusion; at least one of the four lists
\* tested at main.py:110 is not empty
SignalLists ==
    {l \in [mf : DistinctSeqs({101, 102, 103}, MaxSignalLen),
            cbf : {<<>>, <<102>>},
            popular : DistinctSeqs({101, 102, 103}, MaxSignalLen),
            time_based : DistinctSeqs({101, 102, 103}, MaxSignalLen),
            device_based : {<<>>, <<102>>}] :
        l.mf # <<>> \/ l.cbf # <<>> \/ l.time_based # <<>> \/ l.device_based # <<>>}

FusionInit ==
    /\ redis = <<>>
    /\ last = NoCall
    /\ users_keys = DOMAIN users
    /\ profile_keys = DOMAIN users
    /\ mf_scores = [pid \in ProductIds |-> 0]
    /\ knn_ties = "low"
    /\ catalog = <<>>
    /\ history \in SignalLists

\* main.py:126-155 for the drawn lists
Fuse(top_n) ==
    /\ last.op = "none"
    /\ last' = [op |-> "fuse", top_n |-> top_n,
                result |-> WeightedFusion(history.mf, history.cbf, history.popular,
                                          history.time_based, history.device_based, top_n)]
    /\ UNCHANGED <<redis, inputs>>

FusionNext == \E n \in 1..MaxSignalLen : Fuse(n)

FusionSpec == FusionInit /\ [][FusionNext]_vars

\* 60 * weight * (1 - i / L) for the product's 0-based position i in the
\* list of length L, and 0 when the list does not hold it
Contribution(list, weight, pid) ==
    IF \E k \in DOMAIN list : list[k] = pid
    THEN LET k == CHOOSE j \in DOMAIN list : list[j] = pid
         IN (60 * weight * (Len(list) - (k - 1))) \div Len(list)
    ELSE 0

AggregateScore(pid) ==
    Contribution(history.mf, 5, pid) + Contribution(history.cbf, 4, pid)
    + Contribution(history.popular, 3, pid) + Contribution(history.time_based, 2, pid)
    + Contribution(history.device_based, 2, pid)

\* where the product is first met when the lists are gone through in the
\* order latent-factor, content, popularity, time, device
FirstEncounter(pid) ==
    LET all == history.mf \o history.cbf \o history.popular
               \o history.time_based \o history.device_based
    IN CHOOSE k \in DOMAIN all : all[k] = pid /\ \A j \in 1..(k - 1) : all[j] # pid

\* a stands before b: larger aggregate score, or the same and met earlier
RanksBefore(a, b) ==
    \/ AggregateScore(a) > AggregateScore(b)
    \/ AggregateScore(a) = AggregateScore(b) /\ FirstEncounter(a) < FirstEncounter(b)

ProfileKey(user_id) == "user_profile:" \o ToString(user_id)

\* json.dumps(user_profile.tolist()) and np.array(json.loads(text))
profile_dumps(profile) == [json |-> "array", items |-> profile]

profile_loads(text) == text.items

\* get_user_profile: [result, store], fault as in get_product_feature_vector
get_user_profile(store, user_id, browsing, purchases, vectors, fault) ==
    LET cache_key == ProfileKey(user_id)
        computed == create_user_profile(user_id, browsing, purchases, vectors)
        cached == redis_get(store, cache_key)
    IN IF fault = "get" THEN [result |-> computed, store |-> store]
       ELSE IF cached.found
       THEN [result |-> Returned(profile_loads(cached.data)), store |-> store]
       ELSE IF computed.status = "raised" THEN [result |-> computed, store |-> store]
       ELSE IF fault = "setex" THEN [result |-> computed, store |-> store]
       ELSE [result |-> computed,
             store |-> redis_setex(store, cache_key, profile_dumps(computed.value))]

\* one more task outcome put into what a batch has gathered so far
Gathered(acc, id, r) ==
    [outcomes |-> [k \in DOMAIN acc.outcomes \cup {id} |->
                      IF k = id THEN r.result ELSE acc.outcomes[k]],
     order |-> Append(acc.order, id),
     store |-> r.store]

NothingGathered(store) == [outcomes |-> <<>>, order |-> <<>>, store |-> store]

\* the get_product_feature_vector tasks of a batch, one per item; in_line is
\* the dict comprehension, which the first raising task leaves
RECURSIVE FeatureTasks(_, _, _, _)
FeatureTasks(items, vocabulary, acc, in_line) ==
    IF items = <<>> THEN acc
    ELSE LET r == get_product_feature_vector(acc.store, Head(items).product_id,
                                             Head(items).product, vocabulary.tags,
                                             vocabulary.categories, "none")
             next == Gathered(acc, Head(items).product_id, r)
         IN IF in_line /\ r.result.status = "raised" THEN next
            ELSE FeatureTasks(Tail(items), vocabulary, next, in_line)

\* the get_user_profile tasks of a batch
RECURSIVE ProfileTasks(_, _, _, _, _, _)
ProfileTasks(user_ids, browsing, purchases, vectors, acc, in_line) ==
    IF user_ids = <<>> THEN acc
    ELSE LET r == get_user_profile(acc.store, Head(user_ids), browsing, purchases,
                                   vectors, "none")
             next == Gathered(acc, Head(user_ids), r)
         IN IF in_line /\ r.result.status = "raised" THEN next
            ELSE ProfileTasks(Tail(user_ids), browsing, purchases, vectors, next, in_line)

\* the recommend_products_hybrid tasks of a batch, one per user of the users map
RECURSIVE RecommendationTasks(_, _, _, _, _, _, _)
RecommendationTasks(user_ids, season_input, data, top_n, current_day, acc, in_line) ==
    IF user_ids = <<>> THEN acc
    ELSE LET c == HybridCall(acc.store,
                             HybridCompute(Head(user_ids), season_input, data, top_n,
                                           current_day),
                             Head(user_ids), season_input, "none")
             r == [result |-> [status |-> c.outcome.status, error |-> c.outcome.error,
                               value |-> c.outcome.value],
                   store |-> c.store]
             next == Gathered(acc, Head(user_ids), r)
         IN IF in_line /\ r.result.status = "raised" THEN next
            ELSE RecommendationTasks(Tail(user_ids), season_input, data, top_n, current_day,
                                     next, in_line)

\* What a batch makes of its tasks: [result, store]. The executor path keeps
\* every result that future.result() hands over and logs the exceptions; the
\* in-line path (taken when 'pytest' is in sys.modules) has no handler, so a
\* raising task ends the batch with its exception.
BatchResult(run, in_line) ==
    LET failed == {id \in DOMAIN run.outcomes : run.outcomes[id].status = "raised"}
    IN [result |->
           IF in_line /\ failed # {}
           THEN Raised(run.outcomes[run.order[Len(run.order)]].error)
           ELSE Returned([id \in DOMAIN run.outcomes \ failed |-> run.outcomes[id].value]),
        store |-> run.store]

compute_product_feature_vectors_parallel(store, items, vocabulary, pytest) ==
    BatchResult(FeatureTasks(items, vocabulary, NothingGathered(store), pytest), pytest)

compute_user_profiles_parallel(store, user_ids, browsing, purchases, vectors, pytest) ==
    BatchResult(ProfileTasks(user_ids, browsing, purchases, vectors, NothingGathered(store),
                             pytest), pytest)

\* generate_recommendations_parallel has the executor path alone
generate_recommendations_parallel(store, user_ids, season_input, data, top_n, current_day) ==
    BatchResult(RecommendationTasks(user_ids, season_input, data, top_n, current_day,
                                    NothingGathered(store), FALSE), FALSE)

\* users.keys() in insertion order
UserOrder == <<1, 2, 3, 4, 5>>

\* the catalog items, and batches in which the record of one product is
\* malformed (an unknown category, an unknown tag)
CatalogItems ==
    [i \in DOMAIN ProductOrder |->
        [product_id |-> ProductOrder[i],
         product |-> ProductRecord(products[ProductOrder[i]].tags,
                                   products[ProductOrder[i]].category)]]

ProductBatches ==
    {CatalogItems,
     [CatalogItems EXCEPT ![2].product.category = "Invalid"],
     [CatalogItems EXCEPT ![1].product.tags = <<"audio", "unknown">>],
     [CatalogItems EXCEPT ![5].product.category = "NonExistentCategory"]}

\* the sample histories, and the same with user 1 having browsed a product
\* (106) that has no feature vector
BatchHistories ==
    {[browsing |-> browsing_history, purchases |-> purchase_history],
     [browsing |-> (1 :> <<101, 106>>) @@ browsing_history, purchases |-> purchase_history]}

BatchInit ==
    /\ redis = <<>>
    /\ last = NoCall
    /\ users_keys \in UsersInputs
    /\ profile_keys \in ProfilesInputs
    /\ mf_scores \in MFScoreInputs
    /\ knn_ties = "low"
    /\ catalog \in ProductBatches
    /\ history \in BatchHistories

BatchCall(op, pytest, alone, r) ==
    [op |-> op, pytest |-> pytest, alone |-> alone,
     status |-> r.result.status, error |-> r.result.error, result |-> r.result.value]

\* alone: what each entity's task yields when it runs by itself on the store
ComputeProductFeatureVectorsParallel(pytest) ==
    LET vocabulary == [tags |-> all_tags, categories |-> all_categories]
        alone == [id \in {catalog[i].product_id : i \in DOMAIN catalog} |->
                     LET item == catalog[CHOOSE i \in DOMAIN catalog : catalog[i].product_id = id]
                     IN get_product_feature_vector(redis, id, item.product, all_tags,
                                                   all_categories, "none").result]
        r == compute_product_feature_vectors_parallel(redis, catalog, vocabulary, pytest)
    IN /\ last.op = "none"
       /\ redis' = r.store
       /\ last' = BatchCall("compute_product_feature_vectors_parallel", pytest, alone, r)
       /\ UNCHANGED inputs

ComputeUserProfilesParallel(pytest) ==
    LET user_ids == SelectSeq(UserOrder, LAMBDA u : u \in users_keys)
        alone == [id \in users_keys |->
                     get_user_profile(redis, id, history.browsing, history.purchases,
                                      product_feature_vectors, "none").result]
        r == compute_user_profiles_parallel(redis, user_ids, history.browsing,
                                            history.purchases, product_feature_vectors, pytest)
    IN /\ last.op = "none"
       /\ redis' = r.store
       /\ last' = BatchCall("compute_user_profiles_parallel", pytest, alone, r)
       /\ UNCHANGED inputs

GenerateRecommendationsParallel(current_day) ==
    LET user_ids == SelectSeq(UserOrder, LAMBDA u : u \in users_keys)
        season_input == <<"All Year", "Summer">>
        data == DatasetOf(users_keys, profile_keys, mf_scores, knn_ties)
        alone == [id \in users_keys |->
                     LET c == HybridCall(redis,
                                         HybridCompute(id, season_input, data, DefaultTopN,
                                                       current_day),
                                         id, season_input, "none").outcome
                     IN [status |-> c.status, error |-> c.error, value |-> c.value]]
        r == generate_recommendations_parallel(redis, user_ids, season_input, data,
                                               DefaultTopN, current_day)
    IN /\ last.op = "none"
       /\ redis' = r.store
       /\ last' = BatchCall("generate_recommendations_parallel", FALSE, alone, r)
       /\ UNCHANGED inputs

BatchNext ==
    \/ \E pytest \in BOOLEAN : ComputeProductFeatureVectorsParallel(pytest)
    \/ \E pytest \in BOOLEAN : ComputeUserProfilesParallel(pytest)
    \/ \E d \in CallDays : GenerateRecommendationsParallel(d)

BatchSpec == BatchInit /\ [][BatchNext]_vars

BatchOps ==
    {"compute_product_feature_vectors_parallel", "compute_user_profiles_parallel",
     "generate_recommendations_parallel"}

\* C16: a batch operation, on its executor path and on its in-line path,
\* returns a map that holds the result of every entity whose task does not
\* fail and lacks the entities whose task fails; a failing task never ends
\* the batch.
C16_FailingTaskIsSkipped ==
    last.op \in BatchOps
    => (/\ last.status = "returned"
        /\ DOMAIN last.result = {id \in DOMAIN last.alone : last.alone[id].status = "returned"}
        /\ \A id \in DOMAIN last.result : last.result[id] = last.alone[id].value)

(***************************************************************************)
(* Two identical requests running concurrently against one cache           *)
(***************************************************************************)
Requests == {1, 2}

\* a request before its cache lookup
Waiting == [pc |-> "lookup", computed |-> <<>>, status |-> "", path |-> "", result |-> <<>>]

Finished(outcome) ==
    [pc |-> "done", computed |-> <<>>, status |-> outcome.status, path |-> outcome.path,
     result |-> outcome.value]

\* last holds the arguments both requests were given and where each stands
ConcurrentInit ==
    /\ redis = <<>>
    /\ last \in [user_id : CallUsers, season_input : SeasonInputs, top_n : TopNs,
                 request : {[r \in Requests |-> Waiting]}]
    /\ users_keys \in UsersInputs
    /\ profile_keys \in ProfilesInputs
    /\ mf_scores \in MFScoreInputs
    /\ knn_ties \in TieInputs
    /\ catalog = <<>>
    /\ history = <<>>

\* main.py:90-93: redis_client.get, and the return on a hit
Lookup(r) ==
    LET cached_recommendations ==
            get_cached_recommendations(redis, last.user_id, last.season_input)
    IN /\ last.request[r].pc = "lookup"
       /\ last' = [last EXCEPT !.request[r] =
                      IF cached_recommendations.found /\ cached_recommendations.value # <<>>
                      THEN Finished(Outcome("returned", "", "cache_hit",
                                            cached_recommendations.value))
                      ELSE [@ EXCEPT !.pc = "compute"]]
       /\ UNCHANGED <<redis, inputs>>

\* main.py:95-155: the recommenders and the fusion, on the day the request
\* reads from the clock; the paths that return without storing end here
Compute(r, current_day) ==
    LET computed == HybridComputeTable[users_keys][profile_keys][mf_scores][knn_ties]
                                      [last.user_id][last.season_input][last.top_n]
                                      [current_day]
    IN /\ last.request[r].pc = "compute"
       /\ last' = [last EXCEPT !.request[r] =
                      IF computed.path # "fusion" THEN Finished(computed)
                      ELSE [@ EXCEPT !.pc = "store", !.computed = computed]]
       /\ UNCHANGED <<redis, inputs>>

\* main.py:157-159: redis_client.setex, and the return
Store(r) ==
    /\ last.request[r].pc = "store"
    /\ redis' = cache_recommendations(redis, last.user_id, last.season_input,
                                      last.request[r].computed.value)
    /\ last' = [last EXCEPT !.request[r] = Finished(last.request[r].computed)]
    /\ UNCHANGED inputs

ConcurrentNext ==
    \/ \E r \in Requests : Lookup(r)
    \/ \E r \in Requests, d \in CallDays : Compute(r, d)
    \/ \E r \in Requests : Store(r)

ConcurrentSpec == ConcurrentInit /\ [][ConcurrentNext]_vars

\* C17: when two requests with identical arguments have both returned,
\* however their lookups, computations and stores interleaved, they have
\* returned the same list and the cache entry of their key holds that list.
C17_ConcurrentRequestsAgree ==
    (\A r \in Requests : last.request[r].pc = "done" /\ last.request[r].status = "returned")
    => (/\ Entries(last.request[1].result) = Entries(last.request[2].result)
        /\ CacheKey(last.user_id, last.season_input) \in DOMAIN redis
        /\ Entries(recommendations_loads(redis[CacheKey(last.user_id, last.season_input)]))
           = Entries(last.request[1].result))

(***************************************************************************)
(* main.create_sparse_user_item_matrix over bounded purchase histories     *)
(***************************************************************************)
\* data_loading.build_index: {id: idx for idx, id in enumerate(keys)}
build_index(keys) == [id \in Range(keys) |-> IndexOf(keys, id) - 1]

\* the (row, col, 1) triplets appended while traversing purchase_history.items();
\* "KeyError" as soon as an id of a record is missing from its index
RECURSIVE MatrixTriplets(_, _, _, _)
MatrixTriplets(user_order, purchases, user_index, product_index) ==
    IF user_order = <<>> THEN <<>>
    ELSE LET user_id == Head(user_order)
             records == purchases[user_id]
             rest == MatrixTriplets(Tail(user_order), purchases, user_index, product_index)
         IN IF records # <<>> /\ user_id \notin DOMAIN user_index THEN "KeyError"
            ELSE IF \E i \in DOMAIN records : records[i][1] \notin DOMAIN product_index
                 THEN "KeyError"
            ELSE IF rest = "KeyError" THEN "KeyError"
            ELSE [i \in DOMAIN records |->
                     <<user_index[user_id], product_index[records[i][1]], 1>>] \o rest

\* scipy's csr_matrix((data, (rows, cols)), shape): the entry at (row, col)
\* is the sum of the data given for it, duplicates being summed together
csr_matrix(triplets, n_rows, n_cols) ==
    [row \in 0..(n_rows - 1) |->
        [col \in 0..(n_cols - 1) |->
            SumSeq([i \in DOMAIN triplets |->
                       IF triplets[i][1] = row /\ triplets[i][2] = col
                       THEN triplets[i][3] ELSE 0])]]

create_sparse_user_item_matrix(user_order, purchases, user_index, product_index) ==
    LET triplets == MatrixTriplets(user_order, purchases, user_index, product_index)
    IN IF triplets = "KeyError" THEN Raised("KeyError")
       ELSE Returned(csr_matrix(triplets, Cardinality(DOMAIN user_index),
                                Cardinality(DOMAIN product_index)))

\* users with every user of the histories, or with user 2 missing
MatrixUsersInputs == {DOMAIN users, DOMAIN users \ {2}}

MatrixCall(outcome) ==
    [op |-> "create_sparse_user_item_matrix", status |-> outcome.status,
     error |-> outcome.error, result |-> outcome.value]

MatrixInit ==
    /\ redis = <<>>
    /\ last = NoCall
    /\ users_keys \in MatrixUsersInputs
    /\ profile_keys = DOMAIN users
    /\ mf_scores = [pid \in ProductIds |-> 0]
    /\ knn_ties = "low"
    /\ catalog = <<>>
    /\ history \in PurchaseHistories

CreateSparseUserItemMatrix ==
    /\ last.op = "none"
    /\ last' = MatrixCall(create_sparse_user_item_matrix(
                   Purchasers, history,
                   build_index(SelectSeq(UserOrder, LAMBDA u : u \in users_keys)),
                   build_index(ProductOrder)))
    /\ UNCHANGED <<redis, inputs>>

MatrixNext == CreateSparseUserItemMatrix

MatrixSpec == MatrixInit /\ [][MatrixNext]_vars

\* C18: every entry of the matrix built by create_sparse_user_item_matrix
\* is 1 when the purchase history holds at least one record of that product
\* by that user, however many records or whatever quantities, and 0
\* otherwise.
C18_EntriesAreIndicators ==
    (last.op = "create_sparse_user_item_matrix" /\ last.status = "returned")
    => LET user_index == build_index(SelectSeq(UserOrder, LAMBDA u : u \in users_keys))
           product_index == build_index(ProductOrder)
       IN \A u \in DOMAIN user_index, pid \in DOMAIN product_index :
             last.result[user_index[u]][product_index[pid]]
             = IF /\ u \in DOMAIN history
                  /\ \E i \in DOMAIN history[u] : history[u][i][1] = pid
               THEN 1 ELSE 0

(***************************************************************************)
(* Ids missing from a derived map, checked on Spec                         *)
(***************************************************************************)
HasHistory(user_id) ==
    user_id \in DOMAIN browsing_history \/ user_id \in DOMAIN purchase_history

\* C19: recommend_products_hybrid for a user who has history but no entry
\* in the user-profile map, the user index or the users map never raises
\* KeyError: it completes with a degraded result.
C19_MissingIdNeverRaises ==
    (/\ last.op = "recommend"
     /\ HasHistory(last.user_id)
     /\ (last.user_id \notin profile_keys \/ last.user_id \notin users_keys))
    => ~(last.status = "raised" /\ last.error = "KeyError")

====
